---- MODULE Spec2Model ----
(***************************************************************************)
(* Model of the LLM story output pipeline: the alias tables and field      *)
(* rewriter of schemas/llmOutput/transforms.ts and the entity normalizers  *)
(* and validateLLMStoryOutput of the llmOutput validation module.          *)
(*                                                                         *)
(* JavaScript values are tagged records.  An object keeps its keys in      *)
(* insertion order (k) beside their values (v); an array keeps its items   *)
(* in v.  A thrown TypeError is the value TypeErr.                         *)
(***************************************************************************)
EXTENDS Integers, Sequences, FiniteSets, TLC

\* ------------------------------------------------------------ JS values

Undef == [t |-> "undefined"]
Null == [t |-> "null"]
TypeErr == [t |-> "TypeError"]
Str(s) == [t |-> "string", s |-> s]
Num(n) == [t |-> "number", n |-> n]
Bool(b) == [t |-> "boolean", b |-> b]
Obj(k, v) == [t |-> "object", k |-> k, v |-> v]
Arr(v) == [t |-> "array", v |-> v]
EmptyObj == Obj(<<>>, <<>>)

\* !x is false
Truthy(x) ==
  CASE x.t = "undefined" -> FALSE
    [] x.t = "null" -> FALSE
    [] x.t = "string" -> x.s # ""
    [] x.t = "number" -> x.n # 0
    [] x.t = "boolean" -> x.b
    [] OTHER -> TRUE

\* typeof x === 'object' (true of null and of arrays)
TypeofObject(x) == x.t \in {"object", "array", "null"}

IsNullish(x) == x.t \in {"undefined", "null"}

\* a value that holds no properties of its own; assigning one throws in a module
IsPrimitive(x) == x.t \in {"string", "number", "boolean"}

IsArray(x) == x.t = "array"

KeyIndex(o, key) == CHOOSE n \in 1..Len(o.k) : o.k[n] = key

HasKey(o, key) == o.t = "object" /\ \E n \in 1..Len(o.k) : o.k[n] = key

\* o[key] for the field names the pipeline reads, o not null or undefined
Get(o, key) == IF HasKey(o, key) THEN o.v[KeyIndex(o, key)] ELSE Undef

\* o[key] = val on an object: an existing key keeps its place, a new one is appended
Put(o, key, val) ==
  IF HasKey(o, key)
  THEN Obj(o.k, [o.v EXCEPT ![KeyIndex(o, key)] = val])
  ELSE Obj(Append(o.k, key), Append(o.v, val))

Digits == <<"0", "1", "2", "3", "4", "5", "6", "7", "8", "9">>

RECURSIVE NatStr(_)
\* the decimal text of an index, as a template literal prints it
NatStr(n) == IF n < 10 THEN Digits[n + 1] ELSE NatStr(n \div 10) \o Digits[(n % 10) + 1]

RECURSIVE ToStr(_)
RECURSIVE JoinItems(_)
\* String(x)
ToStr(x) ==
  CASE x.t = "string" -> x.s
    [] x.t = "number" -> NatStr(x.n)
    [] x.t = "boolean" -> IF x.b THEN "true" ELSE "false"
    [] x.t = "array" -> JoinItems(x.v)
    [] x.t = "object" -> "[object Object]"
    [] OTHER -> x.t

JoinItems(items) ==
  IF items = <<>> THEN ""
  ELSE LET h == IF IsNullish(Head(items)) THEN "" ELSE ToStr(Head(items))
       IN IF Len(items) = 1 THEN h ELSE h \o "," \o JoinItems(Tail(items))

LowerTable ==
  [Story |-> "story", AULA |-> "aula", GROUP |-> "group", Individual |-> "individual",
   Male |-> "male", DM |-> "dm", T |-> "t", N |-> "n"]

\* s.toLowerCase(), over the strings the inputs are drawn from
ToLowerCase(s) == IF s \in DOMAIN LowerTable THEN LowerTable[s] ELSE s

\* Object.entries(o): an array lists its items under their indices
EntryKeys(o) == IF o.t = "array" THEN [n \in 1..Len(o.v) |-> NatStr(n - 1)] ELSE o.k

EntryVals(o) == o.v

\* ------------------------------------------------------------ alias tables

STORY_FIELD_MAPPINGS ==
  [story_id |-> "systemName", system_name |-> "systemName", systemName |-> "systemName",
   title |-> "displayName", display_name |-> "displayName", displayName |-> "displayName",
   story_type |-> "storyType", storyType |-> "storyType"]

CHARACTER_FIELD_MAPPINGS ==
  [id |-> "systemName", character_id |-> "systemName", system_name |-> "systemName",
   systemName |-> "systemName",
   name |-> "displayName", display_name |-> "displayName", displayName |-> "displayName",
   age_group |-> "ageGroup", ageGroup |-> "ageGroup", gender |-> "gender", region |-> "region",
   voicePersonality |-> "voiceConfig", voice_personality |-> "voiceConfig",
   voiceConfig |-> "voiceConfig", voice_config |-> "voiceConfig",
   isUser |-> "isUser", is_user |-> "isUser",
   role |-> "role", backstory |-> "backgroundInfo", background_info |-> "backgroundInfo",
   backgroundInfo |-> "backgroundInfo",
   typing_style |-> "speakingStyle", typingStyle |-> "speakingStyle",
   speakingStyle |-> "speakingStyle"]

CHAT_FIELD_MAPPINGS ==
  [chat_id |-> "systemName", id |-> "systemName", system_name |-> "systemName",
   systemName |-> "systemName",
   display_title |-> "displayName", title |-> "displayName", name |-> "displayName",
   displayName |-> "displayName",
   type |-> "conversationType", conversation_type |-> "conversationType",
   conversationType |-> "conversationType",
   participants |-> "participants", description |-> "description",
   learning_environment |-> "learningEnvironment", learningEnvironment |-> "learningEnvironment"]

BEAT_FIELD_MAPPINGS ==
  [beat_id |-> "systemName", id |-> "systemName", system_name |-> "systemName",
   systemName |-> "systemName",
   display_title |-> "displayName", title |-> "displayName", displayName |-> "displayName",
   chat_id |-> "conversationId", conversation_id |-> "conversationId",
   conversationId |-> "conversationId", room_id |-> "conversationId",
   sequence_number |-> "sequencePosition", sequencePosition |-> "sequencePosition",
   index |-> "sequencePosition",
   premade_messages |-> "openingMessages", openingMessages |-> "openingMessages",
   messages |-> "openingMessages", content |-> "openingMessages",
   response_suggestion |-> "responseSuggestions", response_suggestions |-> "responseSuggestions",
   responseSuggestion |-> "responseSuggestions", responseSuggestions |-> "responseSuggestions",
   problem_type |-> "problemType", problemType |-> "problemType",
   participants |-> "participants", participantsIds |-> "participants",
   prompt_context |-> "promptContext", promptContext |-> "promptContext"]

PREMADE_MESSAGE_FIELD_MAPPINGS ==
  [sender_id |-> "sender", sender |-> "sender",
   message |-> "content", content |-> "content",
   language |-> "languages", languages |-> "languages",
   message_note |-> "messageNote", messageNote |-> "messageNote",
   delay_seconds |-> "delaySeconds", delaySeconds |-> "delaySeconds",
   sender_name |-> "senderDisplayName", senderDisplayName |-> "senderDisplayName"]

FIELD_MAPPINGS ==
  [story |-> STORY_FIELD_MAPPINGS, character |-> CHARACTER_FIELD_MAPPINGS,
   chat |-> CHAT_FIELD_MAPPINGS, beat |-> BEAT_FIELD_MAPPINGS,
   premadeMessage |-> PREMADE_MESSAGE_FIELD_MAPPINGS]

\* Object.keys(STORY_FIELD_MAPPINGS)
STORY_KEYS ==
  <<"story_id", "system_name", "systemName", "title", "display_name", "displayName",
    "story_type", "storyType">>

\* Object.keys(CHARACTER_FIELD_MAPPINGS)
CHARACTER_KEYS ==
  <<"id", "character_id", "system_name", "systemName", "name", "display_name",
    "displayName", "age_group", "ageGroup", "gender", "region", "voicePersonality",
    "voice_personality", "voiceConfig", "voice_config", "isUser", "is_user", "role",
    "backstory", "background_info", "backgroundInfo", "typing_style", "typingStyle",
    "speakingStyle">>

\* Object.keys(CHAT_FIELD_MAPPINGS)
CHAT_KEYS ==
  <<"chat_id", "id", "system_name", "systemName", "display_title", "title", "name",
    "displayName", "type", "conversation_type", "conversationType", "participants",
    "description", "learning_environment", "learningEnvironment">>

\* Object.keys(BEAT_FIELD_MAPPINGS)
BEAT_KEYS ==
  <<"beat_id", "id", "system_name", "systemName", "display_title", "title", "displayName",
    "chat_id", "conversation_id", "conversationId", "room_id", "sequence_number",
    "sequencePosition", "index", "premade_messages", "openingMessages", "messages",
    "content", "response_suggestion", "response_suggestions", "responseSuggestion",
    "responseSuggestions", "problem_type", "problemType", "participants",
    "participantsIds", "prompt_context", "promptContext">>

\* Object.keys(PREMADE_MESSAGE_FIELD_MAPPINGS)
PREMADE_MESSAGE_KEYS ==
  <<"sender_id", "sender", "message", "content", "language", "languages", "message_note",
    "messageNote", "delay_seconds", "delaySeconds", "sender_name", "senderDisplayName">>

FIELD_KEYS ==
  [story |-> STORY_KEYS, character |-> CHARACTER_KEYS, chat |-> CHAT_KEYS, beat |-> BEAT_KEYS,
   premadeMessage |-> PREMADE_MESSAGE_KEYS]

\* ------------------------------------------------------------ field rewriter

\* names every object literal inherits: mapping[key] finds a function under them
InheritedKeys == {"constructor", "toString", "valueOf", "hasOwnProperty"}

\* mapping[key] || key
TargetKey(mapping, key) ==
  IF key \in DOMAIN mapping THEN mapping[key]
  ELSE IF key = "constructor" THEN "function Object() { [native code] }"
  ELSE IF key \in InheritedKeys THEN "function " \o key \o "() { [native code] }"
  ELSE key

RECURSIVE RewriteEntries(_, _, _, _)
\* the for loop of transformFields over Object.entries(obj), in the record's key order
RewriteEntries(ks, vs, mapping, result) ==
  IF ks = <<>> THEN result
  ELSE LET targetKey == TargetKey(mapping, Head(ks))
           value == Head(vs)
           next == IF Get(result, targetKey) = Undef \/ value # Undef
                   THEN Put(result, targetKey, value)
                   ELSE result
       IN RewriteEntries(Tail(ks), Tail(vs), mapping, next)

\* the entries taken last to first
transformFieldsReversed(obj, mapping) ==
  IF ~Truthy(obj) \/ ~TypeofObject(obj) THEN obj
  ELSE LET ks == EntryKeys(obj)
           vs == EntryVals(obj)
       IN RewriteEntries([n \in 1..Len(ks) |-> ks[Len(ks) + 1 - n]],
                         [n \in 1..Len(vs) |-> vs[Len(vs) + 1 - n]], mapping, EmptyObj)

transformFields(obj, mapping) ==
  IF ~Truthy(obj) \/ ~TypeofObject(obj) THEN obj
  ELSE RewriteEntries(EntryKeys(obj), EntryVals(obj), mapping, EmptyObj)

transformEntity(entityType, obj) == transformFields(obj, FIELD_MAPPINGS[entityType])

\* value.filter((v) => typeof v === 'string')
StringsOf(items) == SelectSeq(items, LAMBDA v : v.t = "string")

\* the sequence kept whole, strings or not
normalizeLanguagesUnfiltered(value) ==
  IF IsArray(value) THEN value
  ELSE IF value.t = "string" THEN Arr(<<value>>)
  ELSE Arr(<<>>)

normalizeLanguages(value) ==
  IF IsArray(value) THEN Arr(StringsOf(value.v))
  ELSE IF value.t = "string" THEN Arr(<<value>>)
  ELSE Arr(<<>>)

normalizeResponseSuggestions(value) ==
  IF IsArray(value) THEN Arr(StringsOf(value.v))
  ELSE IF value.t = "string" THEN Arr(<<value>>)
  ELSE Arr(<<>>)

\* the message container read as a sequence only
transformPremadeMessagesOfArrays(messages) ==
  IF IsArray(messages)
  THEN [n \in 1..Len(messages.v) |-> transformEntity("premadeMessage", messages.v[n])]
  ELSE <<>>

\* messages.map(f) / Object.values(messages).map(f) with f = transformEntity('premadeMessage', .)
transformPremadeMessages(messages) ==
  IF ~Truthy(messages) THEN <<>>
  ELSE IF messages.t \in {"array", "object"}
  THEN [n \in 1..Len(messages.v) |-> transformEntity("premadeMessage", messages.v[n])]
  ELSE <<>>

\* ------------------------------------------------------------ entity normalizers

\* a || b || ... : the first truthy value, or the last one
RECURSIVE FirstTruthy(_)
FirstTruthy(vals) ==
  IF Len(vals) = 1 \/ Truthy(Head(vals)) THEN Head(vals) ELSE FirstTruthy(Tail(vals))

\* a ?? b
Coalesce(a, b) == IF IsNullish(a) THEN b ELSE a

transformPremadeMessage(raw) ==
  LET transformed == transformEntity("premadeMessage", raw) IN
  IF IsNullish(transformed) THEN TypeErr
  ELSE IF Get(transformed, "languages") # Undef \/ Get(raw, "language") # Undef
  THEN Put(transformed, "languages",
           normalizeLanguages(Coalesce(Get(transformed, "languages"), Get(raw, "language"))))
  ELSE transformed

GENDERS == {"male", "female", "neutral"}

\* isUser coerced by truthiness
transformCharacterCoercing(raw) ==
  LET transformed == transformEntity("character", raw) IN
  IF IsNullish(transformed) \/ IsPrimitive(transformed) THEN TypeErr
  ELSE LET t1 == Put(transformed, "isUser", Bool(Truthy(Get(transformed, "isUser"))))
           gender == Get(t1, "gender")
       IN IF Truthy(gender) /\ gender.t = "string" /\ ToLowerCase(gender.s) \in GENDERS
          THEN Put(t1, "gender", Str(ToLowerCase(gender.s)))
          ELSE t1

transformCharacter(raw) ==
  LET transformed == transformEntity("character", raw) IN
  IF IsNullish(transformed) \/ IsPrimitive(transformed) THEN TypeErr
  ELSE LET t1 == IF Get(transformed, "isUser").t # "boolean"
                 THEN Put(transformed, "isUser", Bool(FALSE))
                 ELSE transformed
           gender == Get(t1, "gender")
       IN IF Truthy(gender) /\ gender.t = "string" /\ ToLowerCase(gender.s) \in GENDERS
          THEN Put(t1, "gender", Str(ToLowerCase(gender.s)))
          ELSE t1

ConversationTypeOf(value) ==
  IF Truthy(value)
  THEN LET type == ToLowerCase(ToStr(value)) IN
       IF type \in {"individual", "1:1", "one-on-one"} THEN Str("dm")
       ELSE IF type \in {"group", "group_chat"} THEN Str("group")
       ELSE IF type # "dm" THEN Str("dm")
       ELSE value
  ELSE Str("dm")

transformChat(raw) ==
  LET transformed == transformEntity("chat", raw) IN
  IF IsNullish(transformed) \/ IsPrimitive(transformed) THEN TypeErr
  ELSE LET t1 == Put(transformed, "conversationType",
                     ConversationTypeOf(Get(transformed, "conversationType")))
       IN IF ~IsArray(Get(t1, "participants")) THEN Put(t1, "participants", Arr(<<>>)) ELSE t1

\* the first candidate that is truthy and no empty sequence
RawMessagesOfNonEmpty(raw) ==
  LET filled == SelectSeq(<<Get(raw, "premade_messages"), Get(raw, "openingMessages"),
                            Get(raw, "messages"), Get(raw, "content")>>,
                          LAMBDA v : Truthy(v) /\ v # Arr(<<>>))
  IN IF filled = <<>> THEN Arr(<<>>) ELSE Head(filled)

\* raw.premade_messages || raw.openingMessages || raw.messages || raw.content || []
RawMessagesOf(raw) ==
  FirstTruthy(<<Get(raw, "premade_messages"), Get(raw, "openingMessages"),
                Get(raw, "messages"), Get(raw, "content"), Arr(<<>>)>>)

\* raw.response_suggestions || raw.response_suggestion || raw.responseSuggestions
RawSuggestionsOf(raw) ==
  FirstTruthy(<<Get(raw, "response_suggestions"), Get(raw, "response_suggestion"),
                Get(raw, "responseSuggestions")>>)

\* messages.map(transformPremadeMessage), TypeErr when one call throws
MapPremadeMessage(messages) ==
  LET out == [n \in 1..Len(messages) |-> transformPremadeMessage(messages[n])] IN
  IF \E n \in 1..Len(out) : out[n] = TypeErr THEN TypeErr ELSE Arr(out)

\* the isActive default applied to every falsy value
transformBeatActiveUnlessTruthy(raw) ==
  LET transformed == transformEntity("beat", raw) IN
  IF IsNullish(raw) \/ IsPrimitive(transformed) THEN TypeErr
  ELSE LET openingMessages == MapPremadeMessage(transformPremadeMessages(RawMessagesOf(raw))) IN
       IF openingMessages = TypeErr THEN TypeErr
       ELSE LET t1 == Put(transformed, "openingMessages", openingMessages)
                t2 == Put(t1, "responseSuggestions",
                          normalizeResponseSuggestions(RawSuggestionsOf(raw)))
                t3 == IF Get(t2, "sequencePosition").t # "number"
                      THEN Put(t2, "sequencePosition", Num(0)) ELSE t2
            IN IF ~Truthy(Get(t3, "isActive")) THEN Put(t3, "isActive", Bool(TRUE)) ELSE t3

transformBeat(raw) ==
  LET transformed == transformEntity("beat", raw) IN
  IF IsNullish(raw) \/ IsPrimitive(transformed) THEN TypeErr
  ELSE LET openingMessages == MapPremadeMessage(transformPremadeMessages(RawMessagesOf(raw))) IN
       IF openingMessages = TypeErr THEN TypeErr
       ELSE LET t1 == Put(transformed, "openingMessages", openingMessages)
                t2 == Put(t1, "responseSuggestions",
                          normalizeResponseSuggestions(RawSuggestionsOf(raw)))
                t3 == IF Get(t2, "sequencePosition").t # "number"
                      THEN Put(t2, "sequencePosition", Num(0)) ELSE t2
            IN IF Get(t3, "isActive").t # "boolean" THEN Put(t3, "isActive", Bool(TRUE)) ELSE t3

\* the description wrapped whatever its type
transformStoryWrapping(raw) ==
  LET transformed == transformEntity("story", raw)
      description == Get(transformed, "description")
      t1 == IF Truthy(description)
            THEN Put(transformed, "description", Obj(<<"summary">>, <<description>>))
            ELSE transformed
      storyType == Get(t1, "storyType")
  IN IF Truthy(storyType) /\ ToLowerCase(ToStr(storyType)) \in {"story", "aula"}
     THEN Put(t1, "storyType", Str(ToLowerCase(ToStr(storyType))))
     ELSE t1

\* the result may be a primitive: transformStory assigns nothing to one
transformStory(raw) ==
  LET transformed == transformEntity("story", raw)
      description == Get(transformed, "description")
      t1 == IF description.t = "string"
            THEN Put(transformed, "description", Obj(<<"summary">>, <<description>>))
            ELSE transformed
      storyType == Get(t1, "storyType")
  IN IF Truthy(storyType) /\ ToLowerCase(ToStr(storyType)) \in {"story", "aula"}
     THEN Put(t1, "storyType", Str(ToLowerCase(ToStr(storyType))))
     ELSE t1

\* ------------------------------------------------------------ JSON.parse

\* a text is the sequence of its tokens
LiteralTokens ==
  [null |-> Null, true |-> Bool(TRUE), one |-> Num(1), zero |-> Num(0),
   quoted_a |-> Str("a"), quoted_empty |-> Str("")]

StringTokens == {"quoted_a", "quoted_empty"}

ParseFail == [ok |-> FALSE, val |-> Undef, rest |-> <<>>]

RECURSIVE ParseValue(_)
RECURSIVE ParseElements(_, _)
RECURSIVE ParseMembers(_, _)
ParseValue(toks) ==
  IF toks = <<>> THEN ParseFail
  ELSE LET h == Head(toks)
           r == Tail(toks)
       IN CASE h \in DOMAIN LiteralTokens -> [ok |-> TRUE, val |-> LiteralTokens[h], rest |-> r]
            [] h = "[" -> IF r # <<>> /\ Head(r) = "]"
                          THEN [ok |-> TRUE, val |-> Arr(<<>>), rest |-> Tail(r)]
                          ELSE ParseElements(r, <<>>)
            [] h = "{" -> IF r # <<>> /\ Head(r) = "}"
                          THEN [ok |-> TRUE, val |-> EmptyObj, rest |-> Tail(r)]
                          ELSE ParseMembers(r, EmptyObj)
            [] OTHER -> ParseFail

ParseElements(toks, acc) ==
  LET e == ParseValue(toks) IN
  IF ~e.ok \/ e.rest = <<>> THEN ParseFail
  ELSE IF Head(e.rest) = "]"
  THEN [ok |-> TRUE, val |-> Arr(Append(acc, e.val)), rest |-> Tail(e.rest)]
  ELSE IF Head(e.rest) = "," THEN ParseElements(Tail(e.rest), Append(acc, e.val))
  ELSE ParseFail

ParseMembers(toks, acc) ==
  IF Len(toks) < 3 \/ Head(toks) \notin StringTokens \/ toks[2] # ":" THEN ParseFail
  ELSE LET e == ParseValue(SubSeq(toks, 3, Len(toks)))
           next == Put(acc, LiteralTokens[Head(toks)].s, e.val)
       IN IF ~e.ok \/ e.rest = <<>> THEN ParseFail
          ELSE IF Head(e.rest) = "}" THEN [ok |-> TRUE, val |-> next, rest |-> Tail(e.rest)]
          ELSE IF Head(e.rest) = "," THEN ParseMembers(Tail(e.rest), next)
          ELSE ParseFail

\* JSON.parse(raw): ok is false where it throws a SyntaxError
JSONParse(toks) ==
  LET p == ParseValue(toks) IN
  IF p.ok /\ p.rest = <<>> THEN [ok |-> TRUE, val |-> p.val] ELSE [ok |-> FALSE, val |-> Undef]

\* ------------------------------------------------------------ validateLLMStoryOutput

Issue(path, message) == [path |-> path, message |-> message]

IssueWithValue(path, message, value) == [path |-> path, message |-> message, value |-> value]

\* the early return without its error entry
InvalidJsonResultNoError ==
  [kind |-> "returned", success |-> FALSE, hasData |-> FALSE, warnings |-> <<>>, errors |-> <<>>]

InvalidJsonResult ==
  [kind |-> "returned", success |-> FALSE, hasData |-> FALSE, warnings |-> <<>>,
   errors |-> <<Issue("", "Invalid JSON input")>>]

NotAnObjectResult ==
  [kind |-> "returned", success |-> FALSE, hasData |-> FALSE, warnings |-> <<>>,
   errors |-> <<Issue("", "Input must be an object")>>]

\* the call ended in an exception instead of a ValidationResult
Thrown == [kind |-> "thrown"]

NoResult == [kind |-> "none"]

\* the shape check without its test for null
FailsShapeCheckTypeofOnly(value) == ~TypeofObject(value)

\* !parsed || typeof parsed !== 'object'
FailsShapeCheck(value) == ~Truthy(value) \/ ~TypeofObject(value)

\* input.story || input.story_info || {}
RawStoryOf(input) == FirstTruthy(<<Get(input, "story"), Get(input, "story_info"), EmptyObj>>)

\* (input.entities as Record<string, unknown>)?.key
EntitiesField(input, key) ==
  IF IsNullish(Get(input, "entities")) THEN Undef ELSE Get(Get(input, "entities"), key)

RawCharactersOf(input) ==
  FirstTruthy(<<Get(input, "characters"), Get(input, "cast"),
                EntitiesField(input, "characters"), Arr(<<>>)>>)

\* the chats looked up under conversations before new_chats
RawChatsOfReordered(input) ==
  FirstTruthy(<<Get(input, "chats"), Get(input, "conversations"), Get(input, "new_chats"),
                Get(input, "rooms"), EntitiesField(input, "chats"), Arr(<<>>)>>)

RawChatsOf(input) ==
  FirstTruthy(<<Get(input, "chats"), Get(input, "new_chats"), Get(input, "conversations"),
                Get(input, "rooms"), EntitiesField(input, "chats"), Arr(<<>>)>>)

RawBeatsOf(input) == FirstTruthy(<<Get(input, "beats"), Get(input, "all_beats"), Arr(<<>>)>>)

\* the story check reading displayName where it should read systemName
StoryErrorsOnDisplayName(st) ==
  IF ~Truthy(Get(st, "displayName"))
  THEN <<Issue("story.systemName", "Story is missing systemName (story_id)")>>
  ELSE <<>>

StoryErrors(st) ==
  IF ~Truthy(Get(st, "systemName"))
  THEN <<Issue("story.systemName", "Story is missing systemName (story_id)")>>
  ELSE <<>>

\* the story check without its displayName warning
StoryWarningsNone(st) == <<>>

StoryWarnings(st) ==
  IF ~Truthy(Get(st, "displayName"))
  THEN <<Issue("story.displayName", "Story is missing displayName (title)")>>
  ELSE <<>>

\* the displayName default that never looks at the systemName
StoryNamedUntitled(st) ==
  IF Truthy(Get(st, "displayName")) THEN st
  ELSE IF IsPrimitive(st) THEN TypeErr
  ELSE Put(st, "displayName", Str("Untitled"))

\* the story after the displayName default; TypeErr when the story is a primitive
StoryNamed(st) ==
  IF Truthy(Get(st, "displayName")) THEN st
  ELSE IF IsPrimitive(st) THEN TypeErr
  ELSE Put(st, "displayName", FirstTruthy(<<Get(st, "systemName"), Str("Untitled")>>))

\* synthetic names counted from one
SyntheticNameOneBased(kind, i) == Str(kind \o "_" \o NatStr(i + 1))

\* `character_${i}`, `chat_${i}`, `beat_${i}`
SyntheticName(kind, i) == Str(kind \o "_" \o NatStr(i))

MissingNameWarnings(transformed, collection, label, hint, i) ==
  IF ~Truthy(Get(transformed, "systemName"))
  THEN <<Issue(collection \o "[" \o NatStr(i) \o "].systemName",
               label \o " at index " \o NatStr(i) \o " missing systemName (" \o hint \o ")")>>
  ELSE <<>>

\* the systemName default without the displayName default
EntityNamedNoDisplayDefault(transformed, kind, i) ==
  IF ~Truthy(Get(transformed, "systemName"))
  THEN Put(transformed, "systemName", Str(kind \o "_" \o NatStr(i)))
  ELSE transformed

\* the entity after the systemName and displayName defaults
EntityNamed(transformed, kind, i) ==
  LET t1 == IF ~Truthy(Get(transformed, "systemName"))
            THEN Put(transformed, "systemName", SyntheticName(kind, i))
            ELSE transformed
  IN IF ~Truthy(Get(t1, "displayName"))
     THEN Put(t1, "displayName", Get(t1, "systemName"))
     ELSE t1

\* the conversationId warning pushed twice
ConversationWarningsDoubled(named, i) ==
  IF ~Truthy(Get(named, "conversationId"))
  THEN <<Issue("beats[" \o NatStr(i) \o "].conversationId", "Beat missing conversationId (chat_id)"),
         Issue("beats[" \o NatStr(i) \o "].conversationId", "Beat missing conversationId (chat_id)")>>
  ELSE <<>>

ConversationWarnings(named, i) ==
  IF ~Truthy(Get(named, "conversationId"))
  THEN <<Issue("beats[" \o NatStr(i) \o "].conversationId",
               "Beat " \o ToStr(Get(named, "systemName")) \o " missing conversationId (chat_id)")>>
  ELSE <<>>

MessagePath(i, j) == "beats[" \o NatStr(i) \o "].openingMessages[" \o NatStr(j) \o "]"

SenderWarnings(msg, i, j) ==
  IF ~Truthy(Get(msg, "sender"))
  THEN <<IssueWithValue(MessagePath(i, j) \o ".sender", "Message missing sender (sender_id)", msg)>>
  ELSE <<>>

\* the message check without its content test
ContentWarningsNone(msg, i, j) == <<>>

ContentWarnings(msg, i, j) ==
  IF ~Truthy(Get(msg, "content"))
  THEN <<IssueWithValue(MessagePath(i, j) \o ".content", "Message missing content (message)", msg)>>
  ELSE <<>>

RECURSIVE MessageWarnings(_, _, _)
\* openingMessages.forEach((msg, j) => ...), from message j on
MessageWarnings(msgs, i, j) ==
  IF j >= Len(msgs) THEN <<>>
  ELSE SenderWarnings(msgs[j + 1], i, j) \o ContentWarnings(msgs[j + 1], i, j)
       \o MessageWarnings(msgs, i, j + 1)

\* the conversationId check made before the systemName check
BeatWarningsConversationFirst(transformed, i) ==
  ConversationWarnings(EntityNamed(transformed, "beat", i), i)
  \o MissingNameWarnings(transformed, "beats", "Beat", "beat_id", i)
  \o MessageWarnings(Get(transformed, "openingMessages").v, i, 0)

BeatWarnings(transformed, i) ==
  MissingNameWarnings(transformed, "beats", "Beat", "beat_id", i)
  \o ConversationWarnings(EntityNamed(transformed, "beat", i), i)
  \o MessageWarnings(Get(transformed, "openingMessages").v, i, 0)

\* success whatever the errors
SuccessIgnoringErrors(errs) == TRUE

Success(errs) == Len(errs) = 0

BuildResult(st, cs, hs, bs, ws, errs) ==
  [kind |-> "returned", success |-> Success(errs), hasData |-> TRUE,
   data |-> [story |-> st, characters |-> cs, chats |-> hs, beats |-> bs],
   warnings |-> ws, errors |-> errs]

\* ------------------------------------------------------------ records shared with the caller

\* every record is rewritten in place
SharesArgumentAlways(obj) == TRUE

\* transformFields hands back obj itself, where otherwise it fills a fresh record
SharesArgument(obj) == ~Truthy(obj) \/ ~TypeofObject(obj)

\* the caller's value after the assignments to `transformed` left it as `written`
AfterWrites(arg, written) == IF SharesArgument(arg) THEN written ELSE arg

\* where the document may hold the story or a collection, in the order of the || chain
CandidatePaths(kind) ==
  CASE kind = "story" -> <<(<<"story">>), (<<"story_info">>)>>
    [] kind = "character" -> <<(<<"characters">>), (<<"cast">>), (<<"entities", "characters">>)>>
    [] kind = "chat" -> <<(<<"chats">>), (<<"new_chats">>), (<<"conversations">>), (<<"rooms">>),
                          (<<"entities", "chats">>)>>
    [] kind = "beat" -> <<(<<"beats">>), (<<"all_beats">>)>>

\* input.key, or input.entities?.key
GetPath(input, path) ==
  IF Len(path) = 1 THEN Get(input, path[1]) ELSE EntitiesField(input, path[2])

RECURSIVE FirstTruthyPath(_, _)
\* the path of the operand the || chain yields, <<>> for the literal at its end
FirstTruthyPath(input, paths) ==
  IF paths = <<>> THEN <<>>
  ELSE IF Truthy(GetPath(input, Head(paths))) THEN Head(paths)
  ELSE FirstTruthyPath(input, Tail(paths))

RECURSIVE SetPath(_, _, _)
\* the document with the value at the path replaced
SetPath(input, path, val) ==
  IF path = <<>> THEN val
  ELSE Put(input, Head(path), SetPath(Get(input, Head(path)), Tail(path), val))

\* the caller's document after the call left the story rawStory as storyAfter
InputAfterStory(input, rawStory, storyAfter) ==
  LET path == FirstTruthyPath(input, CandidatePaths("story")) IN
  IF path = <<>> \/ storyAfter = rawStory THEN input
  ELSE SetPath(input, path, storyAfter)

\* the caller's document after the callback left the item at index i as itemAfter
InputAfterItem(input, kind, i, item, itemAfter) ==
  LET path == FirstTruthyPath(input, CandidatePaths(kind)) IN
  IF path = <<>> \/ itemAfter = item THEN input
  ELSE SetPath(input, path, Arr([GetPath(input, path).v EXCEPT ![i + 1] = itemAfter]))

\* the key of the operand that raw.premade_messages || raw.openingMessages || ... yields
MessagesKey(raw) ==
  FirstTruthyPath(raw, <<(<<"premade_messages">>), (<<"openingMessages">>), (<<"messages">>),
                         (<<"content">>)>>)

\* the caller's beat after the callback: the beat itself when it is shared, and
\* otherwise the beat with every shared message as transformPremadeMessage left it
BeatAfter(raw, named) ==
  IF SharesArgument(raw) THEN named
  ELSE IF MessagesKey(raw) = <<>> \/ RawMessagesOf(raw).t \notin {"array", "object"} THEN raw
  ELSE LET container == RawMessagesOf(raw)
           after == [q \in 1..Len(container.v) |->
                       AfterWrites(container.v[q],
                                   transformPremadeMessage(
                                     transformEntity("premadeMessage", container.v[q])))]
       IN IF after = container.v THEN raw
          ELSE Put(raw, MessagesKey(raw)[1], [container EXCEPT !.v = after])

\* ------------------------------------------------------------ normalized schemas

\* z.string().min(1)
NonEmptyString(x) == x.t = "string" /\ x.s # ""

\* z.string().optional()
OptionalString(x) == x = Undef \/ x.t = "string"

\* z.array(z.string())
StringArray(x) == IsArray(x) /\ \A n \in 1..Len(x.v) : x.v[n].t = "string"

\* z.object({...}) over fields that are all optional strings
OptionalStrings(o, fields) == \A f \in fields : OptionalString(Get(o, f))

ConformsToPremadeMessage(m) ==
  /\ m.t = "object"
  /\ NonEmptyString(Get(m, "sender"))
  /\ Get(m, "content").t = "string"
  /\ StringArray(Get(m, "languages"))
  /\ OptionalStrings(m, {"senderDisplayName", "translation", "phonetic", "messageNote"})
  /\ Get(m, "delaySeconds").t \in {"undefined", "number"}

ConformsToCharacter(c) ==
  /\ c.t = "object"
  /\ NonEmptyString(Get(c, "systemName"))
  /\ NonEmptyString(Get(c, "displayName"))
  /\ OptionalStrings(c, {"role", "personality", "ageGroup", "region", "backgroundInfo",
                         "speakingStyle"})
  /\ Get(c, "gender") \in {Undef, Str("male"), Str("female"), Str("neutral")}
  /\ Get(c, "voiceConfig").t \in {"undefined", "object"}
  /\ Get(c, "isUser").t = "boolean"

ConformsToChat(h) ==
  /\ h.t = "object"
  /\ NonEmptyString(Get(h, "systemName"))
  /\ NonEmptyString(Get(h, "displayName"))
  /\ Get(h, "conversationType") \in {Str("dm"), Str("group"), Str("individual")}
  /\ StringArray(Get(h, "participants"))
  /\ OptionalStrings(h, {"description", "learningEnvironment"})

ConformsToBeat(b) ==
  /\ b.t = "object"
  /\ NonEmptyString(Get(b, "systemName"))
  /\ NonEmptyString(Get(b, "displayName"))
  /\ NonEmptyString(Get(b, "conversationId"))
  /\ Get(b, "sequencePosition").t = "number"
  /\ IsArray(Get(b, "openingMessages"))
  /\ \A q \in 1..Len(Get(b, "openingMessages").v) :
       ConformsToPremadeMessage(Get(b, "openingMessages").v[q])
  /\ Get(b, "participants") = Undef \/ StringArray(Get(b, "participants"))
  /\ OptionalString(Get(b, "problemType"))
  /\ Get(b, "responseSuggestions") = Undef \/ StringArray(Get(b, "responseSuggestions"))
  /\ Get(b, "isActive").t = "boolean"

ConformsToStory(st) ==
  /\ st.t = "object"
  /\ NonEmptyString(Get(st, "systemName"))
  /\ NonEmptyString(Get(st, "displayName"))
  /\ Get(st, "storyType") \in {Undef, Str("story"), Str("aula")}
  /\ OptionalString(Get(st, "genre"))
  /\ Get(st, "description").t \in {"undefined", "object"}
  /\ Get(st, "settings").t \in {"undefined", "object"}

\* NormalizedStoryOutputSchema accepts the data
ConformsToStoryOutput(data) ==
  /\ ConformsToStory(data.story)
  /\ \A n \in 1..Len(data.characters) : ConformsToCharacter(data.characters[n])
  /\ \A n \in 1..Len(data.chats) : ConformsToChat(data.chats[n])
  /\ \A n \in 1..Len(data.beats) : ConformsToBeat(data.beats[n])

\* ------------------------------------------------------------ validateStrictStoryOutput

\* path.split('.'), over the paths the errors of the pipeline carry
SplitTable == [e \in {""} |-> <<"">>] @@ [e \in {"story.systemName"} |-> <<"story", "systemName">>]

SplitPath(path) == SplitTable[path]

\* the Zod-style result made of a ValidationResult
StrictResultOf(res) ==
  IF ~res.success \/ ~res.hasData
  THEN [kind |-> "returned", success |-> FALSE,
        issues |-> [n \in 1..Len(res.errors) |->
                      [code |-> "custom", path |-> SplitPath(res.errors[n].path),
                       message |-> res.errors[n].message]]]
  ELSE [kind |-> "returned", success |-> TRUE, data |-> res.data]

\* ------------------------------------------------------------ inputs

MaxTextLen == 3
MaxCharacters == 2
MaxChats == 2
MaxBeats == 2
MaxMessages == 2

Absent == [t |-> "absent"]

RECURSIVE MkObjFrom(_, _)
MkObjFrom(pairs, acc) ==
  IF pairs = <<>> THEN acc
  ELSE IF Head(pairs)[2] = Absent THEN MkObjFrom(Tail(pairs), acc)
  ELSE MkObjFrom(Tail(pairs), Put(acc, Head(pairs)[1], Head(pairs)[2]))

\* the record holding the listed fields, in order, without the absent ones
MkObj(pairs) == MkObjFrom(pairs, EmptyObj)

SeqsUpTo(S, n) == UNION {[1..m -> S] : m \in 0..n}

TextTokens == {"{", "}", "[", "]", ":", ",", "null", "one", "quoted_a"}

Texts == {[t |-> "string", toks |-> toks] : toks \in SeqsUpTo(TextTokens, MaxTextLen)}

StoryRecords ==
  {MkObj(<<<<"story_id", id>>, <<"title", title>>>>) :
     id \in {Absent, Str("t"), Str("")}, title \in {Absent, Str("T")}}

GoodStory == MkObj(<<<<"story_id", Str("t")>>, <<"title", Str("T")>>>>)

StoryValues == StoryRecords \cup {Absent, Null, Num(5), Arr(<<>>)}

CharacterElems ==
  {MkObj(<<<<"id", id>>, <<"name", name>>>>) :
     id \in {Absent, Str("c")}, name \in {Absent, Str("N")}}
  \cup {Null, Num(5), Arr(<<Str("x")>>)}

ChatElems ==
  {MkObj(<<<<"chat_id", id>>, <<"title", title>>>>) :
     id \in {Absent, Str("r"), Str("")}, title \in {Absent, Str("T")}}
  \cup {Null, Str("x")}

MessageElems ==
  {MkObj(<<<<"sender_id", sender>>, <<"message", message>>>>) :
     sender \in {Absent, Str("x")}, message \in {Absent, Str("hi")}}
  \cup {Null, Num(5)}

MessageContainers ==
  {Arr(ms) : ms \in SeqsUpTo(MessageElems, MaxMessages)}
  \cup {Absent, Str("none"),
        Obj(<<"a", "b">>, <<MkObj(<<<<"sender_id", Str("x")>>, <<"message", Str("hi")>>>>),
                            MkObj(<<<<"sender_id", Str("y")>>>>)>>)}

\* beats that differ in their message container
MessageBeats ==
  {MkObj(<<<<"beat_id", id>>, <<"chat_id", Str("r")>>, <<"premade_messages", ms>>>>) :
     id \in {Absent, Str("b1")}, ms \in MessageContainers}
  \cup {MkObj(<<<<"beat_id", Str("b1")>>, <<"premade_messages", Arr(<<m>>)>>>>) :
          m \in MessageElems}

BeatElems ==
  {MkObj(<<<<"beat_id", id>>, <<"title", title>>, <<"chat_id", chat>>>>) :
     id \in {Absent, Str("b1")}, title \in {Absent, Str("T")}, chat \in {Absent, Str("r")}}
  \cup {Null, Num(5)}

\* what a producer may store under a collection key instead of a sequence
OddCollections == {Null, Str("x"), Obj(<<"k1">>, <<EmptyObj>>)}

Doc(st, info, cs, cast, hs, bs) ==
  MkObj(<<<<"story", st>>, <<"story_info", info>>, <<"characters", cs>>, <<"cast", cast>>,
          <<"chats", hs>>, <<"beats", bs>>>>)

StoryDocs ==
  {Doc(st, info, Arr(<<>>), Absent, Arr(<<>>), Arr(<<>>)) :
     st \in StoryValues, info \in {Absent, GoodStory}}

CharacterDocs ==
  {Doc(st, Absent, cs, cast, Absent, Absent) :
     st \in {GoodStory, EmptyObj},
     cs \in {Arr(c) : c \in SeqsUpTo(CharacterElems, MaxCharacters)} \cup OddCollections,
     cast \in {Absent, Arr(<<EmptyObj>>)}}

ChatDocs ==
  {Doc(st, Absent, Absent, Absent, hs, Absent) :
     st \in {GoodStory, EmptyObj},
     hs \in {Arr(h) : h \in SeqsUpTo(ChatElems, MaxChats)} \cup OddCollections}

BeatDocs ==
  {Doc(st, Absent, Absent, Absent, Absent, bs) :
     st \in {GoodStory, EmptyObj},
     bs \in {Arr(b) : b \in SeqsUpTo(BeatElems, MaxBeats)} \cup {Arr(<<b>>) : b \in MessageBeats}
            \cup OddCollections}

MixedCharacters ==
  {Absent, Arr(<<EmptyObj>>),
   Arr(<<MkObj(<<<<"id", Str("c")>>, <<"name", Str("N")>>>>), EmptyObj>>)}

MixedChats ==
  {Absent, Arr(<<EmptyObj>>),
   Arr(<<MkObj(<<<<"chat_id", Str("r")>>>>), MkObj(<<<<"title", Str("T")>>>>)>>)}

MixedBeats ==
  {Absent,
   Arr(<<MkObj(<<<<"beat_id", Str("b1")>>,
                 <<"premade_messages", Arr(<<MkObj(<<<<"message", Str("hi")>>>>)>>)>>>>)>>),
   Arr(<<EmptyObj,
         MkObj(<<<<"chat_id", Str("r")>>,
                 <<"premade_messages", Arr(<<EmptyObj, MkObj(<<<<"sender_id", Str("x")>>>>)>>)>>>>)>>)}

MixedDocs ==
  {Doc(st, Absent, cs, Absent, hs, bs) :
     st \in {GoodStory, EmptyObj, MkObj(<<<<"story_id", Str("t")>>>>)},
     cs \in MixedCharacters, hs \in MixedChats, bs \in MixedBeats}

\* what a producer may store as the type of a chat
ConversationTypes ==
  {Absent, Null, Str(""), Str("dm"), Str("DM"), Str("group"), Str("GROUP"), Str("Individual"),
   Str("1:1"), Str("one-on-one"), Str("group_chat"), Str("other"), Num(5), Arr(<<Str("dm")>>)}

\* documents with one chat, differing in the type of the chat and in the alias carrying it
ChatTypeDocs ==
  {Doc(GoodStory, Absent, Absent, Absent,
       Arr(<<MkObj(<<<<"chat_id", Str("r")>>, <<key, type>>>>)>>), Absent) :
     key \in {"type", "conversation_type", "conversationType"}, type \in ConversationTypes}

\* what a producer may store as the languages of a message
LanguageValues ==
  {Absent, Null, Str("es"), Str(""), Num(5), Arr(<<>>), Arr(<<Str("es"), Str("en")>>),
   Arr(<<Str("es"), Num(5), Null, Str("en")>>)}

\* documents with one beat of one message, differing in the languages of the message
LanguageDocs ==
  {Doc(GoodStory, Absent, Absent, Absent, Absent,
       Arr(<<MkObj(<<<<"beat_id", Str("b1")>>, <<"chat_id", Str("r")>>,
                     <<"premade_messages",
                       Arr(<<MkObj(<<<<"sender_id", Str("x")>>, <<"message", Str("hi")>>,
                                     <<key, value>>>>)>>)>>>>)>>)) :
     key \in {"language", "languages"}, value \in LanguageValues}

\* documents with one beat, differing in the response suggestions and in the alias
\* carrying them
SuggestionDocs ==
  {Doc(GoodStory, Absent, Absent, Absent, Absent,
       Arr(<<MkObj(<<<<"beat_id", Str("b1")>>, <<"chat_id", Str("r")>>, <<key, value>>>>)>>)) :
     key \in {"response_suggestion", "response_suggestions", "responseSuggestion",
              "responseSuggestions"},
     value \in {Str("a"), Arr(<<>>), Arr(<<Str("a"), Str("b")>>), Arr(<<Str("a"), Num(5)>>)}}

\* documents of a story alone, differing in its description and its type
StoryDetailDocs ==
  {Doc(MkObj(<<<<"story_id", Str("t")>>, <<"title", Str("T")>>, <<"description", description>>,
               <<"story_type", type>>>>),
       Absent, Absent, Absent, Absent, Absent) :
     description \in {Absent, Str("d"), Obj(<<"summary">>, <<Str("d")>>)},
     type \in {Absent, Str("Story"), Str("AULA"), Str("other")}}

\* a collection of one entity whose id tells the key the collection was stored under
Keyed(idKey, name) == Arr(<<MkObj(<<<<idKey, Str(name)>>>>)>>)

\* documents differing in the root keys that carry the characters
CharacterKeyDocs ==
  {MkObj(<<<<"story", GoodStory>>, <<"characters", a>>, <<"cast", b>>, <<"entities", c>>>>) :
     a \in {Absent, Null, Arr(<<>>), Keyed("id", "characters")},
     b \in {Absent, Arr(<<>>), Keyed("id", "cast")},
     c \in {Absent, Num(5), Obj(<<"characters">>, <<Keyed("id", "entities")>>)}}

\* documents differing in the root keys that carry the chats
ChatKeyDocs ==
  {MkObj(<<<<"story", GoodStory>>, <<"chats", a>>, <<"new_chats", b>>, <<"conversations", c>>,
           <<"rooms", d>>, <<"entities", e>>>>) :
     a \in {Absent, Null, Arr(<<>>), Keyed("chat_id", "chats")},
     b \in {Absent, Keyed("chat_id", "new_chats")},
     c \in {Absent, Keyed("chat_id", "conversations")},
     d \in {Absent, Keyed("chat_id", "rooms")},
     e \in {Absent, Obj(<<"chats">>, <<Keyed("chat_id", "entities")>>)}}

\* documents differing in the root keys that carry the beats
BeatKeyDocs ==
  {MkObj(<<<<"story", GoodStory>>, <<"beats", a>>, <<"all_beats", b>>>>) :
     a \in {Absent, Null, Arr(<<>>), Keyed("beat_id", "beats")},
     b \in {Absent, Keyed("beat_id", "all_beats")}}

\* keys outside every alias table
ExtraKeys == {"mood", "toString", "constructor"}

\* documents whose story, character, chat, beat and message carry one extra key
ExtraKeyDocs ==
  {Doc(MkObj(<<<<"story_id", Str("t")>>, <<"title", Str("T")>>, <<key, Str("x")>>>>), Absent,
       Arr(<<MkObj(<<<<"id", Str("c")>>, <<key, Str("x")>>>>)>>), Absent,
       Arr(<<MkObj(<<<<"chat_id", Str("r")>>, <<key, Str("x")>>>>)>>),
       Arr(<<MkObj(<<<<"beat_id", Str("b1")>>, <<"chat_id", Str("r")>>, <<key, Str("x")>>,
                     <<"premade_messages",
                       Arr(<<MkObj(<<<<"sender_id", Str("x")>>, <<"message", Str("hi")>>,
                                     <<key, Str("x")>>>>)>>)>>>>)>>)) :
     key \in ExtraKeys}

\* documents whose character carries isUser under two aliases, in either order
CharacterTieDocs ==
  {Doc(GoodStory, Absent,
       Arr(<<Obj(<<"id", keys[1], keys[2]>>, <<Str("c"), first, second>>)>>),
       Absent, Absent, Absent) :
     keys \in {<<"isUser", "is_user">>, <<"is_user", "isUser">>},
     first \in {Bool(TRUE), Bool(FALSE), Undef}, second \in {Bool(TRUE), Bool(FALSE), Undef}}

\* documents whose beat carries its position under two aliases, in either order
BeatTieDocs ==
  {Doc(GoodStory, Absent, Absent, Absent, Absent,
       Arr(<<Obj(<<"beat_id", "chat_id", keys[1], keys[2]>>,
                 <<Str("b1"), Str("r"), first, second>>)>>)) :
     keys \in {<<"sequence_number", "index">>, <<"index", "sequence_number">>},
     first \in {Num(0), Num(5), Undef}, second \in {Num(0), Num(5), Undef}}

\* a message container of one message whose sender tells the key it was stored under
KeyedMessages(name) ==
  Arr(<<MkObj(<<<<"sender_id", Str(name)>>, <<"message", Str("hi")>>>>)>>)

\* documents of one beat, differing in the keys that carry its messages
MessageKeyDocs ==
  {Doc(GoodStory, Absent, Absent, Absent, Absent,
       Arr(<<MkObj(<<<<"beat_id", Str("b1")>>, <<"chat_id", Str("r")>>,
                     <<"premade_messages", a>>, <<"openingMessages", b>>,
                     <<"messages", c>>, <<"content", d>>>>)>>)) :
     a \in {Absent, Null, Str(""), Arr(<<>>), KeyedMessages("premade_messages")},
     b \in {Absent, KeyedMessages("openingMessages")},
     c \in {Absent, KeyedMessages("messages")},
     d \in {Absent, KeyedMessages("content")}}

\* documents of one beat, differing in its position and its isActive flag
BeatDefaultDocs ==
  {Doc(GoodStory, Absent, Absent, Absent, Absent,
       Arr(<<MkObj(<<<<"beat_id", Str("b1")>>, <<"chat_id", Str("r")>>,
                     <<"sequence_number", position>>, <<"isActive", active>>>>)>>)) :
     position \in {Absent, Null, Num(0), Num(5), Str("3")},
     active \in {Absent, Null, Bool(FALSE), Bool(TRUE), Str("yes"), Num(0)}}

\* documents of one character, differing in its isUser flag and the alias carrying it
CharacterUserDocs ==
  {Doc(GoodStory, Absent,
       Arr(<<MkObj(<<<<"id", Str("c")>>, <<key, value>>>>)>>), Absent, Absent, Absent) :
     key \in {"isUser", "is_user"},
     value \in {Absent, Null, Bool(TRUE), Bool(FALSE), Str("true"), Num(1)}}

\* the key of the id of an entity, and the root key of its collection
IdKeyOf(kind) ==
  CASE kind = "character" -> "id" [] kind = "chat" -> "chat_id" [] kind = "beat" -> "beat_id"

\* documents of two entities of one kind, each with no id, a name of its own or a
\* name of the form <kind>_<n>
EntityIdDocs ==
  UNION {{MkObj(<<<<"story", GoodStory>>,
                 <<kind \o "s", Arr(<<MkObj(<<<<IdKeyOf(kind), first>>>>),
                                       MkObj(<<<<IdKeyOf(kind), second>>>>)>>)>>>>) :
            first, second \in {Absent, Str("c"), Str(kind \o "_0"), Str(kind \o "_1")}} :
         kind \in {"character", "chat", "beat"}}

\* values given in place of a document
RootValues ==
  {Undef, Null, Num(0), Num(5), Bool(TRUE), Arr(<<>>), Arr(<<GoodStory>>)}

Inputs == Texts \cup RootValues \cup StoryDocs \cup CharacterDocs \cup ChatDocs \cup BeatDocs
          \cup MixedDocs \cup ChatTypeDocs \cup LanguageDocs
          \cup SuggestionDocs \cup StoryDetailDocs
          \cup CharacterKeyDocs \cup ChatKeyDocs \cup BeatKeyDocs \cup ExtraKeyDocs
          \cup CharacterTieDocs \cup BeatTieDocs \cup MessageKeyDocs
          \cup BeatDefaultDocs \cup CharacterUserDocs \cup EntityIdDocs

\* ------------------------------------------------------------ the call, step by step

VARIABLES raw, pc, parsed, story, characters, chats, beats, i, warnings, errors, result, strict

vars == <<raw, pc, parsed, story, characters, chats, beats, i, warnings, errors, result,
         strict>>

Init ==
  /\ raw \in Inputs
  /\ pc = "parse"
  /\ parsed = Undef
  /\ story = Undef
  /\ characters = <<>>
  /\ chats = <<>>
  /\ beats = <<>>
  /\ i = 0
  /\ warnings = <<>>
  /\ errors = <<>>
  /\ result = NoResult
  /\ strict = NoResult

Return(r) == result' = r /\ pc' = "done"

\* lines 497-509
Parse ==
  /\ pc = "parse"
  /\ IF raw.t = "string"
     THEN IF JSONParse(raw.toks).ok
          THEN parsed' = JSONParse(raw.toks).val /\ pc' = "shape" /\ UNCHANGED result
          ELSE Return(InvalidJsonResult) /\ UNCHANGED parsed
     ELSE parsed' = raw /\ pc' = "shape" /\ UNCHANGED result
  /\ UNCHANGED <<strict, raw, story, characters, chats, beats, i, warnings, errors>>

\* lines 511-517
ShapeCheck ==
  /\ pc = "shape"
  /\ IF FailsShapeCheck(parsed)
     THEN Return(NotAnObjectResult)
     ELSE pc' = "story" /\ UNCHANGED result
  /\ UNCHANGED <<strict, raw, parsed, story, characters, chats, beats, i, warnings, errors>>

\* lines 521-541
NormalizeStory ==
  /\ pc = "story"
  /\ LET st == transformStory(RawStoryOf(parsed)) IN
     /\ errors' = errors \o StoryErrors(st)
     /\ warnings' = warnings \o StoryWarnings(st)
     /\ IF StoryNamed(st) = TypeErr
        THEN Return(Thrown) /\ UNCHANGED <<parsed, story>>
        ELSE /\ story' = StoryNamed(st)
             /\ parsed' = InputAfterStory(parsed, RawStoryOf(parsed),
                                       AfterWrites(RawStoryOf(parsed), StoryNamed(st)))
             /\ pc' = "characters"
             /\ UNCHANGED result
  /\ UNCHANGED <<strict, raw, characters, chats, beats, i>>

\* rawCharacters.map where rawCharacters is no array
CharactersMapFails ==
  /\ pc = "characters"
  /\ ~IsArray(RawCharactersOf(parsed))
  /\ Return(Thrown)
  /\ UNCHANGED <<strict, raw, parsed, story, characters, chats, beats, i, warnings, errors>>

\* lines 549-564, one call of the map callback
NormalizeCharacter ==
  /\ pc = "characters"
  /\ IsArray(RawCharactersOf(parsed))
  /\ i < Len(RawCharactersOf(parsed).v)
  /\ LET transformed == transformCharacter(RawCharactersOf(parsed).v[i + 1]) IN
     IF transformed = TypeErr
     THEN Return(Thrown) /\ UNCHANGED <<parsed, characters, i, warnings>>
     ELSE /\ warnings' = warnings \o MissingNameWarnings(transformed, "characters", "Character", "id", i)
          /\ characters' = Append(characters, EntityNamed(transformed, "character", i))
          /\ parsed' = InputAfterItem(parsed, "character", i, RawCharactersOf(parsed).v[i + 1],
                                      AfterWrites(RawCharactersOf(parsed).v[i + 1],
                                                  EntityNamed(transformed, "character", i)))
          /\ i' = i + 1
          /\ UNCHANGED <<pc, result>>
  /\ UNCHANGED <<strict, raw, story, chats, beats, errors>>

EndCharacters ==
  /\ pc = "characters"
  /\ IsArray(RawCharactersOf(parsed))
  /\ i = Len(RawCharactersOf(parsed).v)
  /\ pc' = "chats"
  /\ i' = 0
  /\ UNCHANGED <<strict, raw, parsed, story, characters, chats, beats, warnings, errors, result>>

ChatsMapFails ==
  /\ pc = "chats"
  /\ ~IsArray(RawChatsOf(parsed))
  /\ Return(Thrown)
  /\ UNCHANGED <<strict, raw, parsed, story, characters, chats, beats, i, warnings, errors>>

\* the callback of chats.map with every result put in front of the earlier ones
NormalizeChatPrepending ==
  /\ pc = "chats"
  /\ IsArray(RawChatsOf(parsed))
  /\ i < Len(RawChatsOf(parsed).v)
  /\ LET transformed == transformChat(RawChatsOf(parsed).v[i + 1]) IN
     IF transformed = TypeErr
     THEN Return(Thrown) /\ UNCHANGED <<parsed, chats, i, warnings>>
     ELSE /\ warnings' = warnings \o MissingNameWarnings(transformed, "chats", "Chat", "chat_id", i)
          /\ chats' = <<EntityNamed(transformed, "chat", i)>> \o chats
          /\ parsed' = InputAfterItem(parsed, "chat", i, RawChatsOf(parsed).v[i + 1],
                                      AfterWrites(RawChatsOf(parsed).v[i + 1],
                                                  EntityNamed(transformed, "chat", i)))
          /\ i' = i + 1
          /\ UNCHANGED <<pc, result>>
  /\ UNCHANGED <<strict, raw, story, characters, beats, errors>>

\* lines 574-589, one call of the map callback
NormalizeChat ==
  /\ pc = "chats"
  /\ IsArray(RawChatsOf(parsed))
  /\ i < Len(RawChatsOf(parsed).v)
  /\ LET transformed == transformChat(RawChatsOf(parsed).v[i + 1]) IN
     IF transformed = TypeErr
     THEN Return(Thrown) /\ UNCHANGED <<parsed, chats, i, warnings>>
     ELSE /\ warnings' = warnings \o MissingNameWarnings(transformed, "chats", "Chat", "chat_id", i)
          /\ chats' = Append(chats, EntityNamed(transformed, "chat", i))
          /\ parsed' = InputAfterItem(parsed, "chat", i, RawChatsOf(parsed).v[i + 1],
                                      AfterWrites(RawChatsOf(parsed).v[i + 1],
                                                  EntityNamed(transformed, "chat", i)))
          /\ i' = i + 1
          /\ UNCHANGED <<pc, result>>
  /\ UNCHANGED <<strict, raw, story, characters, beats, errors>>

EndChats ==
  /\ pc = "chats"
  /\ IsArray(RawChatsOf(parsed))
  /\ i = Len(RawChatsOf(parsed).v)
  /\ pc' = "beats"
  /\ i' = 0
  /\ UNCHANGED <<strict, raw, parsed, story, characters, chats, beats, warnings, errors, result>>

BeatsMapFails ==
  /\ pc = "beats"
  /\ ~IsArray(RawBeatsOf(parsed))
  /\ Return(Thrown)
  /\ UNCHANGED <<strict, raw, parsed, story, characters, chats, beats, i, warnings, errors>>

\* lines 597-640, one call of the map callback
NormalizeBeat ==
  /\ pc = "beats"
  /\ IsArray(RawBeatsOf(parsed))
  /\ i < Len(RawBeatsOf(parsed).v)
  /\ LET transformed == transformBeat(RawBeatsOf(parsed).v[i + 1]) IN
     IF transformed = TypeErr
     THEN Return(Thrown) /\ UNCHANGED <<parsed, beats, i, warnings>>
     ELSE /\ warnings' = warnings \o BeatWarnings(transformed, i)
          /\ beats' = Append(beats, EntityNamed(transformed, "beat", i))
          /\ parsed' = InputAfterItem(parsed, "beat", i, RawBeatsOf(parsed).v[i + 1],
                                      BeatAfter(RawBeatsOf(parsed).v[i + 1],
                                                EntityNamed(transformed, "beat", i)))
          /\ i' = i + 1
          /\ UNCHANGED <<pc, result>>
  /\ UNCHANGED <<strict, raw, story, characters, chats, errors>>

EndBeats ==
  /\ pc = "beats"
  /\ IsArray(RawBeatsOf(parsed))
  /\ i = Len(RawBeatsOf(parsed).v)
  /\ pc' = "aggregate"
  /\ i' = 0
  /\ UNCHANGED <<strict, raw, parsed, story, characters, chats, beats, warnings, errors, result>>

\* lines 642-655
Aggregate ==
  /\ pc = "aggregate"
  /\ Return(BuildResult(story, characters, chats, beats, warnings, errors))
  /\ UNCHANGED <<strict, raw, parsed, story, characters, chats, beats, i, warnings, errors>>

\* lines 661-683: validateStrictStoryOutput, once its call of validateLLMStoryOutput
\* has ended; an exception of that call passes through
ValidateStrict ==
  /\ pc = "done"
  /\ strict = NoResult
  /\ strict' = IF result.kind = "thrown" THEN Thrown ELSE StrictResultOf(result)
  /\ UNCHANGED <<raw, pc, parsed, story, characters, chats, beats, i, warnings, errors, result>>

Next ==
  \/ Parse
  \/ ShapeCheck
  \/ NormalizeStory
  \/ CharactersMapFails
  \/ NormalizeCharacter
  \/ EndCharacters
  \/ ChatsMapFails
  \/ NormalizeChat
  \/ EndChats
  \/ BeatsMapFails
  \/ NormalizeBeat
  \/ EndBeats
  \/ Aggregate
  \/ ValidateStrict

Spec == Init /\ [][Next]_vars

\* ------------------------------------------------------------ properties

\* the call returned a ValidationResult
Returned == pc = "done" /\ result.kind = "returned"

\* the call returned a ValidationResult that carries data
HasData == Returned /\ result.hasData

\* the input was no text, or text that JSON.parse accepts
InputParses == raw.t # "string" \/ JSONParse(raw.toks).ok

Kinds == {"character", "chat", "beat"}

CollectionOf(kind) == kind \o "s"

RawOf(kind) ==
  CASE kind = "character" -> RawCharactersOf(parsed).v
    [] kind = "chat" -> RawChatsOf(parsed).v
    [] kind = "beat" -> RawBeatsOf(parsed).v

DataOf(kind) ==
  CASE kind = "character" -> result.data.characters
    [] kind = "chat" -> result.data.chats
    [] kind = "beat" -> result.data.beats

NormalizedOf(kind, x) ==
  CASE kind = "character" -> transformCharacter(x)
    [] kind = "chat" -> transformChat(x)
    [] kind = "beat" -> transformBeat(x)

\* the story as normalized, before the checks of the orchestrator
NormalizedStory == transformStory(RawStoryOf(parsed))

\* how many warnings of the result are at the path
WarningsAt(path) == Cardinality({n \in 1..Len(result.warnings) : result.warnings[n].path = path})

\* how many positions of the sequence satisfy the test
CountIn(items, Test(_)) == Cardinality({n \in 1..Len(items) : Test(items[n])})

Lacks(x, field) == ~Truthy(Get(x, field))

LacksSystemName(kind) ==
  CountIn(RawOf(kind), LAMBDA x : Lacks(NormalizedOf(kind, x), "systemName"))

\* how many messages of the returned beats lack the field
MessagesLacking(field) ==
  Cardinality(UNION {{<<n, m>> : m \in {q \in 1..Len(Get(result.data.beats[n], "openingMessages").v) :
                                         Lacks(Get(result.data.beats[n], "openingMessages").v[q], field)}} :
                     n \in 1..Len(result.data.beats)})

\* the number of tolerated defects of the document
ToleratedDefects ==
  (IF Lacks(NormalizedStory, "displayName") THEN 1 ELSE 0)
  + LacksSystemName("character") + LacksSystemName("chat") + LacksSystemName("beat")
  + CountIn(result.data.beats, LAMBDA beat : Lacks(beat, "conversationId"))
  + MessagesLacking("sender") + MessagesLacking("content")

\* C1: whenever the input parses and its root passes the shape check, the returned
\* result carries data, and success is true exactly when the errors list is empty.
C1_DataAndSuccess ==
  (Returned /\ InputParses /\ parsed.t \in {"object", "array"})
    => /\ result.hasData
       /\ result.success <=> (result.errors = <<>>)

\* a result with data that is marked unsuccessful
C1_Witness == HasData /\ ~result.success /\ result.errors # <<>>

\* C2: for every input whose root is an object the call returns a ValidationResult,
\* whatever is stored under the story and collection keys; it never throws.
C2_NeverThrows == (pc = "done" /\ parsed.t = "object") => result.kind = "returned"

\* C3: text that is not valid JSON halts the call at once: success is false, the
\* only error is "Invalid JSON input", there are no warnings and no data.
C3_InvalidJson ==
  (raw.t = "string" /\ ~JSONParse(raw.toks).ok)
    => /\ pc \in {"parse", "done"}
       /\ story = Undef /\ characters = <<>> /\ chats = <<>> /\ beats = <<>>
       /\ pc = "done"
            => /\ result.kind = "returned"
               /\ ~result.success
               /\ ~result.hasData
               /\ result.warnings = <<>>
               /\ Len(result.errors) = 1
               /\ result.errors[1].message = "Invalid JSON input"

\* the text { "a" } was rejected
C3_Witness ==
  /\ pc = "done"
  /\ raw = [t |-> "string", toks |-> <<"{", "quoted_a", "}">>]
  /\ result.kind = "returned"
  /\ ~result.hasData

C5_MissingStoryId ==
  (/\ pc \in {"characters", "chats", "beats", "aggregate"} \/ HasData
   /\ Lacks(NormalizedStory, "systemName"))
    => /\ Len(errors) = 1
       /\ errors[1].path = "story.systemName"
       /\ HasData
            => /\ ~result.success
               /\ result.errors = errors
               /\ \A kind \in Kinds : Len(DataOf(kind)) = Len(RawOf(kind))
               /\ Len(result.warnings) = ToleratedDefects

\* a story without id, and still a character, a chat and a beat in the data with
\* the warnings of the beat's message
C5_Witness ==
  /\ HasData
  /\ Lacks(NormalizedStory, "systemName")
  /\ \A kind \in Kinds : Len(DataOf(kind)) > 0
  /\ WarningsAt("beats[0].openingMessages[0].sender") = 1

\* the entities of the returned data all have a truthy systemName and displayName
EntitiesNamed ==
  \A kind \in Kinds : \A n \in 1..Len(DataOf(kind)) :
    Truthy(Get(DataOf(kind)[n], "systemName")) /\ Truthy(Get(DataOf(kind)[n], "displayName"))

\* C6 as stated: the story and every character, chat and beat of the returned data
\* have a non-empty systemName and a non-empty displayName.
C6_AllNamed ==
  HasData
    => /\ Truthy(Get(result.data.story, "systemName"))
       /\ Truthy(Get(result.data.story, "displayName"))
       /\ EntitiesNamed

\* C6 amended: every character, chat and beat of the returned data has a non-empty
\* systemName and displayName and the story a non-empty displayName; the story's
\* systemName is non-empty exactly when success is true, and is left as given (absent
\* or empty) when the raw story supplied none.
C6_NamedExceptStoryId ==
  HasData
    => /\ EntitiesNamed
       /\ Truthy(Get(result.data.story, "displayName"))
       /\ Truthy(Get(result.data.story, "systemName")) <=> result.success
       /\ Get(result.data.story, "systemName") = Get(NormalizedStory, "systemName")

\* data whose story has no systemName beside a character that was given no names
C6_Witness ==
  /\ HasData
  /\ Lacks(result.data.story, "systemName")
  /\ \E n \in 1..Len(RawOf("character")) :
       /\ RawOf("character")[n] = EmptyObj
       /\ Truthy(Get(result.data.characters[n], "displayName"))

\* C7: an entity at position i whose systemName is missing after normalization gets
\* exactly one warning at <kind>s[i].systemName and the systemName <kind>_i; an
\* entity that has a systemName keeps it and gets no such warning.
C7_SyntheticNames ==
  HasData
    => \A kind \in Kinds : \A n \in 1..Len(RawOf(kind)) :
         LET path == CollectionOf(kind) \o "[" \o NatStr(n - 1) \o "].systemName"
             given == Get(NormalizedOf(kind, RawOf(kind)[n]), "systemName")
             name == Get(DataOf(kind)[n], "systemName")
         IN IF Truthy(given)
            THEN name = given /\ WarningsAt(path) = 0
            ELSE name = Str(kind \o "_" \o NatStr(n - 1)) /\ WarningsAt(path) = 1

\* a character with an id at position 0 and one without at position 1
C7_Witness ==
  /\ HasData
  /\ Len(result.data.characters) = 2
  /\ Get(result.data.characters[1], "systemName") = Str("c")
  /\ Get(result.data.characters[2], "systemName") = Str("character_1")
  /\ WarningsAt("characters[1].systemName") = 1
  /\ WarningsAt("characters[0].systemName") = 0

\* C8: a beat without conversationId has a warning, every message without sender
\* and every message without content has a warning of its own, and a result whose
\* story has its systemName is successful whatever the warnings.
C8_BeatWarnings ==
  HasData
    => /\ \A n \in 1..Len(result.data.beats) :
            LET beat == result.data.beats[n]
                msgs == Get(beat, "openingMessages").v
            IN /\ Lacks(beat, "conversationId")
                    <=> WarningsAt("beats[" \o NatStr(n - 1) \o "].conversationId") = 1
               /\ \A m \in 1..Len(msgs) :
                    /\ WarningsAt(MessagePath(n - 1, m - 1) \o ".sender")
                         = IF Lacks(msgs[m], "sender") THEN 1 ELSE 0
                    /\ WarningsAt(MessagePath(n - 1, m - 1) \o ".content")
                         = IF Lacks(msgs[m], "content") THEN 1 ELSE 0
       /\ Truthy(Get(NormalizedStory, "systemName")) => result.success

\* a successful result with a conversationId, a sender and a content warning
C8_Witness ==
  /\ HasData
  /\ result.success
  /\ WarningsAt("beats[0].conversationId") = 1
  /\ WarningsAt("beats[1].openingMessages[0].sender") = 1
  /\ WarningsAt("beats[1].openingMessages[1].content") = 1

\* C9: the warnings list holds one entry per tolerated defect and nothing else: its
\* length is the number of tolerated defects of the document.
C9_WarningCount == HasData => Len(result.warnings) = ToleratedDefects

\* a valid story and one beat with an id, no conversationId and one message with
\* content and no sender: two warnings
C9_Witness ==
  /\ HasData
  /\ result.success
  /\ RawOf("character") = <<>>
  /\ RawOf("chat") = <<>>
  /\ RawOf("beat") = <<MkObj(<<<<"beat_id", Str("b1")>>,
                               <<"premade_messages", Arr(<<MkObj(<<<<"message", Str("hi")>>>>)>>)>>>>)>>
  /\ Len(result.warnings) = 2
  /\ result.warnings[1].path = "beats[0].conversationId"
  /\ result.warnings[2].path = "beats[0].openingMessages[0].sender"

DisplayNamePath(kind, n) == CollectionOf(kind) \o "[" \o NatStr(n - 1) \o "].displayName"

\* C10 as stated: for the story and for every character, chat and beat whose
\* displayName is missing after normalization a warning is recorded.
C10_DisplayNameWarned ==
  HasData
    => /\ Lacks(NormalizedStory, "displayName") => WarningsAt("story.displayName") >= 1
       /\ \A kind \in Kinds : \A n \in 1..Len(RawOf(kind)) :
            Lacks(NormalizedOf(kind, RawOf(kind)[n]), "displayName")
              => WarningsAt(DisplayNamePath(kind, n)) >= 1

\* C10 amended: a story without displayName gets one warning at story.displayName; a
\* character, chat or beat without displayName takes its systemName as displayName
\* and no warning is recorded for that.
C10_StoryWarnedEntitiesSilent ==
  HasData
    => /\ WarningsAt("story.displayName") = IF Lacks(NormalizedStory, "displayName") THEN 1 ELSE 0
       /\ \A kind \in Kinds : \A n \in 1..Len(RawOf(kind)) :
            /\ WarningsAt(DisplayNamePath(kind, n)) = 0
            /\ Lacks(NormalizedOf(kind, RawOf(kind)[n]), "displayName")
                 => Get(DataOf(kind)[n], "displayName") = Get(DataOf(kind)[n], "systemName")
       /\ Len(result.warnings) = ToleratedDefects

\* a story without title beside a character with an id and no name, and the story
\* warning is the only one
C10_Witness ==
  /\ HasData
  /\ Lacks(NormalizedStory, "displayName")
  /\ \E n \in 1..Len(RawOf("character")) :
       /\ Truthy(Get(NormalizedOf("character", RawOf("character")[n]), "systemName"))
       /\ Lacks(NormalizedOf("character", RawOf("character")[n]), "displayName")
  /\ Len(result.warnings) = 1
  /\ result.warnings[1].path = "story.displayName"

\* C11: a story that has no displayName after normalization gets one warning at
\* story.displayName, and the returned story's displayName is its systemName when it
\* has one and the text "Untitled" otherwise.
C11_StoryDisplayNameDefault ==
  (HasData /\ Lacks(NormalizedStory, "displayName"))
    => /\ WarningsAt("story.displayName") = 1
       /\ Get(result.data.story, "displayName") =
            IF Lacks(NormalizedStory, "systemName") THEN Str("Untitled")
            ELSE Get(NormalizedStory, "systemName")

\* a story with an id and no title is returned with the id as its displayName
C11_Witness ==
  /\ HasData
  /\ Lacks(NormalizedStory, "displayName")
  /\ ~Lacks(NormalizedStory, "systemName")
  /\ Get(result.data.story, "displayName") = Get(NormalizedStory, "systemName")
  /\ WarningsAt("story.displayName") = 1

\* C12: the conversationType of every chat in the returned data is "dm" or "group".
C12_ConversationType ==
  HasData
    => \A n \in 1..Len(result.data.chats) :
         Get(result.data.chats[n], "conversationType") \in {Str("dm"), Str("group")}

\* the raw messages of the n-th beat, as the beat normalizer selects them
RawMessageItems(n) ==
  LET container == RawMessagesOf(RawOf("beat")[n]) IN
  IF container.t \in {"array", "object"} THEN container.v ELSE <<>>

\* the value a raw message carries as its languages, under either alias
RawLanguagesOf(message) ==
  IF HasKey(message, "languages") THEN Get(message, "languages") ELSE Get(message, "language")

\* C13: the languages of every message record in the returned data is a sequence of
\* strings: a raw text gives the one-element sequence of it, a raw sequence gives its
\* string elements in order, and a message with neither languages nor language gives
\* the empty sequence.
C13_Languages ==
  HasData
    => \A n \in 1..Len(result.data.beats) :
         LET messages == Get(result.data.beats[n], "openingMessages").v IN
         \A q \in 1..Len(messages) :
           messages[q].t = "object"
             => LET languages == Get(messages[q], "languages")
                    given == RawLanguagesOf(RawMessageItems(n)[q])
                IN /\ IsArray(languages)
                   /\ \A e \in 1..Len(languages.v) : languages.v[e].t = "string"
                   /\ given.t = "string" => languages = Arr(<<given>>)
                   /\ IsArray(given) => languages = Arr(StringsOf(given.v))
                   /\ given = Undef => languages = Arr(<<>>)

EntityTypes == {"story", "character", "chat", "beat", "premadeMessage"}

\* the normalizer of the entity type
NormalizerOf(type, x) ==
  CASE type = "story" -> transformStory(x)
    [] type = "premadeMessage" -> transformPremadeMessage(x)
    [] OTHER -> NormalizedOf(type, x)

\* the raw values given for the entity type in the document
RawEntities(type) ==
  CASE type = "story" -> {RawStoryOf(parsed)}
    [] type = "premadeMessage" ->
         UNION {{RawMessageItems(n)[q] : q \in 1..Len(RawMessageItems(n))} :
                n \in 1..Len(RawOf("beat"))}
    [] OTHER -> {RawOf(type)[n] : n \in 1..Len(RawOf(type))}

\* the record with one key renamed in place
RenameKey(x, from, to) ==
  [x EXCEPT !.k = [n \in 1..Len(x.k) |-> IF x.k[n] = from THEN to ELSE x.k[n]]]

\* the keys of the record that are aliases of the canonical field
AliasesIn(type, x, field) ==
  {n \in 1..Len(x.k) : x.k[n] \in DOMAIN FIELD_MAPPINGS[type] /\ FIELD_MAPPINGS[type][x.k[n]] = field}

\* moving the value of the only alias of a canonical field to another alias of the
\* same field leaves the normalized value of the field as it was
AliasEquivalent(type, x) ==
  x.t = "object"
    => \A n \in 1..Len(x.k) :
         LET alias == x.k[n] IN
         alias \in DOMAIN FIELD_MAPPINGS[type]
           => LET field == FIELD_MAPPINGS[type][alias] IN
              \A other \in DOMAIN FIELD_MAPPINGS[type] :
                (FIELD_MAPPINGS[type][other] = field /\ AliasesIn(type, x, field) = {n})
                  => Get(NormalizerOf(type, RenameKey(x, alias, other)), field)
                       = Get(NormalizerOf(type, x), field)

\* C15: for every entity type and canonical field, two raw records that differ only in
\* which registered alias of the field carries the value normalize to the same value
\* of the field.
C15_AliasEquivalence ==
  HasData => \A type \in EntityTypes : \A x \in RawEntities(type) : AliasEquivalent(type, x)

\* rawItems.map(callback) of the orchestrator: every item normalized and named
NormalizeAll(kind, items) ==
  [n \in 1..Len(items) |->
     IF NormalizedOf(kind, items[n]) = TypeErr THEN TypeErr
     ELSE EntityNamed(NormalizedOf(kind, items[n]), kind, n - 1)]

\* the data of the result the call returns for a parsed document, TypeErr when the
\* call throws
ValidatedData(input) ==
  LET st == StoryNamed(transformStory(RawStoryOf(input)))
      cs == RawCharactersOf(input)
      hs == RawChatsOf(input)
      bs == RawBeatsOf(input)
  IN IF st = TypeErr \/ ~IsArray(cs) \/ ~IsArray(hs) \/ ~IsArray(bs) THEN TypeErr
     ELSE LET data == [story |-> st,
                       characters |-> NormalizeAll("character", cs.v),
                       chats |-> NormalizeAll("chat", hs.v),
                       beats |-> NormalizeAll("beat", bs.v)]
          IN IF \E items \in {data.characters, data.chats, data.beats} :
                  \E n \in 1..Len(items) : items[n] = TypeErr
             THEN TypeErr ELSE data

\* the returned data as the document a caller passes to a second call
AsDocument(data) ==
  Obj(<<"story", "characters", "chats", "beats">>,
      <<data.story, Arr(data.characters), Arr(data.chats), Arr(data.beats)>>)

\* C16: validating the data a call returned gives data equal to that data.
C16_Idempotent == HasData => ValidatedData(AsDocument(result.data)) = result.data

\* returned data that differs from the document given: a character got a synthetic
\* id, and validating the data again returns it unchanged
C16_Witness ==
  /\ HasData
  /\ AsDocument(result.data) # parsed
  /\ \E n \in 1..Len(result.data.characters) :
       /\ Lacks(RawOf("character")[n], "id")
       /\ Get(result.data.characters[n], "systemName") = SyntheticName("character", n - 1)
  /\ ValidatedData(AsDocument(result.data)) = result.data

\* what the document holds under the candidate root keys of a kind, in their order
CandidateValues(kind) ==
  CASE kind = "story" -> <<Get(parsed, "story"), Get(parsed, "story_info")>>
    [] kind = "character" ->
         <<Get(parsed, "characters"), Get(parsed, "cast"),
           Get(Get(parsed, "entities"), "characters")>>
    [] kind = "chat" ->
         <<Get(parsed, "chats"), Get(parsed, "new_chats"), Get(parsed, "conversations"),
           Get(parsed, "rooms"), Get(Get(parsed, "entities"), "chats")>>
    [] kind = "beat" -> <<Get(parsed, "beats"), Get(parsed, "all_beats")>>

\* the first candidate that passes the test, or the default when none does
FirstWhere(candidates, Test(_), default) ==
  LET passing == {n \in 1..Len(candidates) : Test(candidates[n])} IN
  IF passing = {} THEN default
  ELSE candidates[CHOOSE n \in passing : \A m \in passing : n <= m]

\* the data of a kind when the collection is taken from the given value
DataFrom(kind, collection) ==
  IF IsArray(collection) THEN NormalizeAll(kind, collection.v) ELSE <<>>

\* C17 as stated: every collection is taken from the first candidate root key that is
\* present, only the absence of a key makes the next one count, and later keys add
\* nothing.
C17_FirstPresentKey ==
  HasData
    => \A kind \in Kinds :
         DataOf(kind) =
           DataFrom(kind, FirstWhere(CandidateValues(kind), LAMBDA v : v # Undef, Arr(<<>>)))

\* C17 amended: the story and every collection are taken from the first candidate root
\* key whose value is truthy, an empty sequence included; a key that is absent or
\* holds null, false, 0 or the empty text makes the next one count, and later keys
\* add nothing.
C17_FirstTruthyKey ==
  HasData
    => /\ \A kind \in Kinds :
            DataOf(kind) = DataFrom(kind, FirstWhere(CandidateValues(kind), Truthy, Arr(<<>>)))
       /\ result.data.story =
            StoryNamed(transformStory(FirstWhere(CandidateValues("story"), Truthy, EmptyObj)))

\* with chats and conversations both given the returned chats are those of chats
C17_Witness ==
  /\ HasData
  /\ Get(parsed, "chats") = Keyed("chat_id", "chats")
  /\ Get(parsed, "conversations") = Keyed("chat_id", "conversations")
  /\ Len(result.data.chats) = 1
  /\ Get(result.data.chats[1], "systemName") = Str("chats")

\* the value the document supplies as the collection of a kind
SuppliedCollection(kind) == FirstWhere(CandidateValues(kind), Truthy, Arr(<<>>))

\* C18: a root-level collection given as a record keyed by ids is flattened: the call
\* returns data holding the normalized values of the record in the order of its keys.
C18_RootRecordFlattened ==
  (pc = "done" /\ parsed.t = "object")
    => \A kind \in Kinds :
         SuppliedCollection(kind).t = "object"
           => /\ HasData
              /\ DataOf(kind) = NormalizeAll(kind, SuppliedCollection(kind).v)

\* C19: the field rewriter strips no key: every key of a raw record that is not in the
\* alias table of its entity type is in the rewritten record, with the same value.
C19_UnknownKeysKept ==
  HasData
    => \A type \in EntityTypes : \A x \in RawEntities(type) :
         x.t = "object"
           => \A n \in 1..Len(x.k) :
                x.k[n] \notin DOMAIN FIELD_MAPPINGS[type]
                  => /\ HasKey(transformEntity(type, x), x.k[n])
                     /\ Get(transformEntity(type, x), x.k[n]) = x.v[n]

\* C20: the call never changes what the caller passed in: from the first step to the
\* return, the document and every record nested in it hold the keys and values they
\* held when the call began.
C20_InputUnchanged == (raw.t # "string" /\ pc # "parse") => parsed = raw

\* a call that injected a synthetic id and a default into the returned character and
\* left the caller's document as it was
C20_Witness ==
  /\ HasData
  /\ raw.t = "object"
  /\ \E n \in 1..Len(result.data.characters) :
       /\ RawOf("character")[n] = EmptyObj
       /\ Get(result.data.characters[n], "systemName") = SyntheticName("character", n - 1)
       /\ Get(result.data.characters[n], "isUser") = Bool(FALSE)
  /\ parsed = raw

RECURSIVE StringElements(_)
\* the string elements of a sequence of values, in their order
StringElements(items) ==
  IF items = <<>> THEN <<>>
  ELSE IF Head(items).t = "string" THEN <<Head(items)>> \o StringElements(Tail(items))
  ELSE StringElements(Tail(items))

\* what the claim makes of a languages value
ExpectedLanguages(value) ==
  CASE value.t = "string" -> Arr(<<value>>)
    [] value.t = "array" -> Arr(StringElements(value.v))
    [] OTHER -> Arr(<<>>)

\* C21: normalizeLanguages turns a text into the one-element sequence of it, a sequence
\* into the subsequence of its string elements in their order, and every other value,
\* undefined included, into the empty sequence; seen on every message that carries a
\* languages value and on undefined itself.
C21_NormalizeLanguages ==
  /\ normalizeLanguages(Undef) = Arr(<<>>)
  /\ HasData
       => \A n \in 1..Len(result.data.beats) :
            LET messages == Get(result.data.beats[n], "openingMessages").v IN
            \A q \in 1..Len(messages) :
              (messages[q].t = "object" /\ RawLanguagesOf(RawMessageItems(n)[q]) # Undef)
                => Get(messages[q], "languages")
                     = ExpectedLanguages(RawLanguagesOf(RawMessageItems(n)[q]))

\* a message whose languages hold a number and null between two texts is returned
\* with the two texts
C21_Witness ==
  /\ HasData
  /\ \E n \in 1..Len(result.data.beats) :
       LET messages == Get(result.data.beats[n], "openingMessages").v IN
       \E q \in 1..Len(messages) :
         /\ RawLanguagesOf(RawMessageItems(n)[q]) = Arr(<<Str("es"), Num(5), Null, Str("en")>>)
         /\ Get(messages[q], "languages") = Arr(<<Str("es"), Str("en")>>)

\* C22: the strict validator returns success only for data that conforms to the
\* normalized schema; a document accepted with warnings about missing fields is
\* rejected.
C22_StrictRejects ==
  (strict.kind = "returned" /\ strict.success) => ConformsToStoryOutput(strict.data)

\* the place of an alias in the enumeration of the alias table of its type
TablePlace(type, alias) == CHOOSE n \in 1..Len(FIELD_KEYS[type]) : FIELD_KEYS[type][n] = alias

\* the positions of the record whose keys are aliases of the field and whose values
\* are not undefined
DefinedAliasesIn(type, x, field) == {n \in AliasesIn(type, x, field) : x.v[n] # Undef}

\* the canonical fields the record carries under two aliases or more
TiedFields(type, x) ==
  {FIELD_MAPPINGS[type][x.k[n]] : n \in {m \in 1..Len(x.k) : x.k[m] \in DOMAIN FIELD_MAPPINGS[type]}}
    \cap {field \in {FIELD_MAPPINGS[type][a] : a \in DOMAIN FIELD_MAPPINGS[type]} :
            Cardinality(AliasesIn(type, x, field)) >= 2}

\* C23 as stated: of two aliases of one canonical key the one later in the enumeration
\* of the alias table gives the value, unless its value is undefined.
C23_TableOrder ==
  HasData
    => \A type \in EntityTypes : \A x \in RawEntities(type) :
         x.t = "object"
           => \A field \in TiedFields(type, x) :
                LET defined == DefinedAliasesIn(type, x, field) IN
                Get(transformEntity(type, x), field) =
                  IF defined = {} THEN Undef
                  ELSE x.v[CHOOSE n \in defined :
                             \A m \in defined :
                               TablePlace(type, x.k[m]) <= TablePlace(type, x.k[n])]

\* C23 amended: of two aliases of one canonical key the one later in the input record
\* gives the value, unless its value is undefined; false and 0 are values and win.
C23_InputOrder ==
  HasData
    => \A type \in EntityTypes : \A x \in RawEntities(type) :
         x.t = "object"
           => \A field \in TiedFields(type, x) :
                LET defined == DefinedAliasesIn(type, x, field) IN
                /\ HasKey(transformEntity(type, x), field)
                /\ Get(transformEntity(type, x), field) =
                     IF defined = {} THEN Undef
                     ELSE x.v[CHOOSE n \in defined : \A m \in defined : m <= n]

\* a beat with index 5 before sequence_number 0 is rewritten to sequencePosition 0,
\* though index comes later in the alias table
C23_Witness ==
  /\ HasData
  /\ \E x \in RawEntities("beat") :
       /\ x.t = "object"
       /\ Get(x, "index") = Num(5)
       /\ Get(x, "sequence_number") = Num(0)
       /\ KeyIndex(x, "index") < KeyIndex(x, "sequence_number")
       /\ TablePlace("beat", "sequence_number") < TablePlace("beat", "index")
       /\ Get(transformEntity("beat", x), "sequencePosition") = Num(0)

\* what a raw beat holds under the candidate keys of its messages, in their order
MessageCandidates(x) ==
  <<Get(x, "premade_messages"), Get(x, "openingMessages"), Get(x, "messages"),
    Get(x, "content")>>

\* the returned beat holds the messages of the container, normalized one by one
MessagesFrom(beat, container) ==
  LET items == IF container.t \in {"array", "object"} THEN container.v ELSE <<>>
      messages == Get(beat, "openingMessages")
  IN /\ IsArray(messages)
     /\ Len(messages.v) = Len(items)
     /\ \A q \in 1..Len(items) : messages.v[q] = transformPremadeMessage(items[q])

\* C24 as stated: the messages of a beat come from the first candidate among
\* premade_messages, openingMessages, messages, content that is not empty; an empty
\* sequence is skipped in favour of a later candidate.
C24_FirstNonEmpty ==
  HasData
    => \A n \in 1..Len(result.data.beats) :
         MessagesFrom(result.data.beats[n],
                      FirstWhere(MessageCandidates(RawOf("beat")[n]),
                                 LAMBDA v : Truthy(v) /\ v # Arr(<<>>), Arr(<<>>)))

\* C24 amended: the messages of a beat come from the first candidate that is truthy;
\* an absent, null or empty-text candidate is skipped, while an empty sequence is
\* selected and gives no messages whatever a later candidate holds.
C24_FirstTruthy ==
  HasData
    => \A n \in 1..Len(result.data.beats) :
         MessagesFrom(result.data.beats[n],
                      FirstWhere(MessageCandidates(RawOf("beat")[n]), Truthy, Arr(<<>>)))

\* a beat with an empty premade_messages beside one message under messages is
\* returned without messages
C24_Witness ==
  /\ HasData
  /\ \E n \in 1..Len(result.data.beats) :
       /\ Get(RawOf("beat")[n], "premade_messages") = Arr(<<>>)
       /\ Get(RawOf("beat")[n], "messages") = KeyedMessages("messages")
       /\ Get(result.data.beats[n], "openingMessages") = Arr(<<>>)

\* the value the raw story carries as its type, under either alias
RawStoryTypeOf(x) ==
  IF HasKey(x, "storyType") THEN Get(x, "storyType") ELSE Get(x, "story_type")

\* C25: the storyType of the returned story is absent, "story" or "aula": a raw value
\* equal to one of the two but for letter case is stored lower-case, and any other
\* raw value leaves storyType absent.
C25_StoryType ==
  HasData
    => LET given == RawStoryTypeOf(RawStoryOf(parsed))
           storyType == Get(result.data.story, "storyType")
       IN /\ storyType \in {Undef, Str("story"), Str("aula")}
          /\ IF given.t = "string" /\ ToLowerCase(given.s) \in {"story", "aula"}
             THEN storyType = Str(ToLowerCase(given.s))
             ELSE ~HasKey(result.data.story, "storyType")

\* C26: in every returned beat sequencePosition is a number and isActive a boolean: a
\* raw value of the right type is kept, 0 and false included, and an absent value or
\* one of another type is replaced by 0 and by true.
C26_BeatDefaults ==
  HasData
    => \A n \in 1..Len(result.data.beats) :
         LET position == Get(transformEntity("beat", RawOf("beat")[n]), "sequencePosition")
             active == Get(RawOf("beat")[n], "isActive")
         IN /\ Get(result.data.beats[n], "sequencePosition")
                 = IF position.t = "number" THEN position ELSE Num(0)
            /\ Get(result.data.beats[n], "isActive")
                 = IF active.t = "boolean" THEN active ELSE Bool(TRUE)

\* a beat given with position 0 and isActive false keeps both
C26_Witness ==
  /\ HasData
  /\ Len(result.data.beats) = 1
  /\ Get(RawOf("beat")[1], "sequence_number") = Num(0)
  /\ Get(RawOf("beat")[1], "isActive") = Bool(FALSE)
  /\ Get(result.data.beats[1], "sequencePosition") = Num(0)
  /\ Get(result.data.beats[1], "isActive") = Bool(FALSE)

\* C27: in every returned character isUser is a boolean: the raw value given as
\* isUser or is_user when that is a boolean, and false when it is absent or of another
\* type.
C27_IsUser ==
  HasData
    => \A n \in 1..Len(result.data.characters) :
         LET given == Get(transformEntity("character", RawOf("character")[n]), "isUser") IN
         Get(result.data.characters[n], "isUser")
           = IF given.t = "boolean" THEN given ELSE Bool(FALSE)

\* a character given with is_user true is returned with isUser true, the key renamed
C27_Witness ==
  /\ HasData
  /\ \E n \in 1..Len(result.data.characters) :
       /\ Get(RawOf("character")[n], "is_user") = Bool(TRUE)
       /\ Get(result.data.characters[n], "isUser") = Bool(TRUE)
       /\ ~HasKey(result.data.characters[n], "is_user")

RECURSIVE Flatten(_)
\* the sequences of a sequence laid end to end
Flatten(seqs) == IF seqs = <<>> THEN <<>> ELSE Head(seqs) \o Flatten(Tail(seqs))

\* the path, if the defect is there
PathIf(defect, path) == IF defect THEN <<path>> ELSE <<>>

IndexedPath(collection, n) == collection \o "[" \o NatStr(n - 1) \o "]"

\* the systemName paths of the entities of a kind that were given no id, by index
NamePaths(kind) ==
  Flatten([n \in 1..Len(RawOf(kind)) |->
             PathIf(Lacks(NormalizedOf(kind, RawOf(kind)[n]), "systemName"),
                    IndexedPath(CollectionOf(kind), n) \o ".systemName")])

\* the paths of the defects of the messages of the n-th returned beat: message by
\* message, sender before content
MessagePaths(n) ==
  LET messages == Get(result.data.beats[n], "openingMessages").v IN
  Flatten([q \in 1..Len(messages) |->
             PathIf(Lacks(messages[q], "sender"),
                    IndexedPath(IndexedPath("beats", n) \o ".openingMessages", q) \o ".sender")
             \o PathIf(Lacks(messages[q], "content"),
                       IndexedPath(IndexedPath("beats", n) \o ".openingMessages", q)
                         \o ".content")])

\* the paths of the defects of the beats: beat by beat, systemName, conversationId,
\* then the messages
BeatPaths ==
  Flatten([n \in 1..Len(result.data.beats) |->
             PathIf(Lacks(NormalizedOf("beat", RawOf("beat")[n]), "systemName"),
                    IndexedPath("beats", n) \o ".systemName")
             \o PathIf(Lacks(result.data.beats[n], "conversationId"),
                       IndexedPath("beats", n) \o ".conversationId")
             \o MessagePaths(n)])

\* the paths of all tolerated defects in the order of the pipeline
PathsInPipelineOrder ==
  PathIf(Lacks(NormalizedStory, "displayName"), "story.displayName")
  \o NamePaths("character") \o NamePaths("chat") \o BeatPaths

IsPrefix(s, t) == Len(s) <= Len(t) /\ \A n \in 1..Len(s) : s[n] = t[n]

\* the returned warnings are in the order of the pipeline
WarningsInPipelineOrder ==
  HasData
    => [n \in 1..Len(result.warnings) |-> result.warnings[n].path] = PathsInPipelineOrder

\* C28: the issue lists are only appended to, and the returned warnings are in the
\* order of the pipeline: story, characters, chats, beats; by ascending index within
\* a collection; within a beat systemName, conversationId, then message by message
\* sender before content.
C28_WarningOrder ==
  /\ [][IsPrefix(warnings, warnings') /\ IsPrefix(errors, errors')]_vars
  /\ []WarningsInPipelineOrder

\* a document with a defect of every sort returns its nine warnings in the order of
\* the pipeline
C28_Witness ==
  /\ HasData
  /\ [n \in 1..Len(result.warnings) |-> result.warnings[n].path] =
       <<"story.displayName", "characters[0].systemName", "chats[0].systemName",
         "beats[0].systemName", "beats[0].conversationId", "beats[1].systemName",
         "beats[1].openingMessages[0].sender", "beats[1].openingMessages[0].content",
         "beats[1].openingMessages[1].content">>

\* the entities of the kind in the returned data stand one for one, at the same
\* positions, for the raw entities
OneForOne(kind) ==
  /\ Len(DataOf(kind)) = Len(RawOf(kind))
  /\ \A n \in 1..Len(RawOf(kind)) :
       DataOf(kind)[n] = EntityNamed(NormalizedOf(kind, RawOf(kind)[n]), kind, n - 1)

\* the messages of the n-th returned beat stand one for one, at the same positions,
\* for its raw messages
MessagesOneForOne(n) ==
  LET messages == Get(result.data.beats[n], "openingMessages").v IN
  /\ Len(messages) = Len(RawMessageItems(n))
  /\ \A q \in 1..Len(messages) : messages[q] = transformPremadeMessage(RawMessageItems(n)[q])

\* C29: no entity is dropped, duplicated or reordered: the characters, chats and beats
\* of the returned data have the length of the raw sequence and element i is the
\* normalization of raw element i; the openingMessages of every beat has one
\* element per raw message, in order.
C29_OneForOne ==
  HasData
    => /\ \A kind \in Kinds : OneForOne(kind)
       /\ \A n \in 1..Len(result.data.beats) : MessagesOneForOne(n)

\* two different raw chats returned as two different chats, the first under its own
\* name and the second under a synthetic one
C29_Witness ==
  /\ HasData
  /\ Len(RawOf("chat")) = 2
  /\ RawOf("chat")[1] # RawOf("chat")[2]
  /\ result.data.chats[1] # result.data.chats[2]
  /\ Truthy(Get(RawOf("chat")[1], "chat_id"))
  /\ Get(result.data.chats[1], "systemName") = Get(RawOf("chat")[1], "chat_id")
  /\ Get(result.data.chats[2], "systemName") = SyntheticName("chat", 1)

\* the systemName given to the n-th raw entity of the kind, undefined when none
ExplicitName(kind, n) == Get(NormalizedOf(kind, RawOf(kind)[n]), "systemName")

\* the names in the sequence are pairwise distinct wherever both are relevant
PairwiseDistinct(names, Relevant(_)) ==
  \A m, n \in 1..Len(names) :
    (m < n /\ Relevant(names[m]) /\ Relevant(names[n])) => names[m] # names[n]

\* C30: if the systemNames given within a collection are pairwise distinct, then the
\* systemNames of that collection in the returned data, given and synthesized
\* together, are pairwise distinct.
C30_DistinctNames ==
  HasData
    => \A kind \in Kinds :
         PairwiseDistinct([n \in 1..Len(RawOf(kind)) |-> ExplicitName(kind, n)], Truthy)
           => PairwiseDistinct([n \in 1..Len(DataOf(kind)) |->
                                  Get(DataOf(kind)[n], "systemName")],
                               LAMBDA name : TRUE)

====
